---- MODULE Spec2Model ----
(***************************************************************************)
(* Model of lib/pmatic.py (Pipe-o-matic): the event log (EventLog), the    *)
(* run workflow (PipelineEngine.run, SingleTaskPipeline.implement_run) and *)
(* the revert workflow (EventLog.revert_one).                              *)
(*                                                                         *)
(* The on-disk state is the events directory (db/, new/, head), the inode  *)
(* snapshot store and the context directory.  The process state is the     *)
(* EventLog object's event_data cache, the position (pc) of the running    *)
(* operation and its local variables.  Every filesystem step of            *)
(* post_event, save_event, save_new_head and record_pipeline_reverted is   *)
(* one action, so that the process can be stopped between any two of them. *)
(*                                                                         *)
(* The context directory is abstracted to a pair (tree, writable): `tree`  *)
(* identifies the set of entries and their contents, `writable` tells      *)
(* whether the regular files still carry their write bits.  A snapshot is  *)
(* the tree it was taken of.  This is the representation of Spec and of    *)
(* CrashSpec (Spec with the process killed at any step).                   *)
(*                                                                         *)
(* FsSpec runs the same log actions on a detailed context: ctx.files maps  *)
(* each path to its entry (REG with an inode, DIR, LNK with a target),     *)
(* ctx.inodes maps an inode to its mode and bytes, ctx.trash_cans holds    *)
(* what TrashCan.trash moved away, and inode_snapshots maps the name of a  *)
(* backup to the inode it is a hard link to.  There scan_directory,        *)
(* create_snapshot and restore_snapshot are computed as the code does, and *)
(* the child process changes the context while the engine waits.           *)
(*                                                                         *)
(* DepSpec applies the dependency categorisation of PipelineEngine.run to  *)
(* sets of declared dependencies, registries and filesystems.              *)
(*                                                                         *)
(* ReservedSpec applies restore_snapshot to contexts that hold the         *)
(* reserved directories .pmatic and .trash_cans as entries of ctx.files.   *)
(***************************************************************************)
EXTENDS Integers, Sequences, FiniteSets, TLC

\* ------------------------------------------------------------------ bounds
\* Length of a behaviour: the number of event ids gen_uuid_str hands out plus
\* the number of times the process is killed.
MaxEvents == 6
\* Context trees are numbered 0..MaxTree.
MaxTree == 1
\* Number of changes children make to the context in a behaviour.
MaxChildOps == 2
\* Number of dependencies of a pipeline.
MaxDeps == 3

\* --------------------------------------------------------------- constants
\* yaml null / Python None for ids.
Null == 0
\* The head file does not exist.
Absent == -1
\* "no exit_code attribute" on an event, "no exit code yet" in implement_run.
NoCode == -1
\* "no snapshot attribute" on an event.
NoTree == -1

PipelineNames == {"hello", "other"}
Trees == 0..MaxTree
\* Exit codes of the child: zero and a non-zero one.
ExitCodes == {0, 1}
EVENT_TYPES == {"started", "finished", "failed", "reverted"}

VARIABLES
    log_exists,       \* events/, db/ and new/ exist (EventLog.log_exists)
    db,               \* events/db: id -> [data, complete]
    new_dir,          \* events/new/<id>.yaml staging files: id -> [data, complete]
    new_head,         \* events/new/head staging file: [present, value, complete]
    head,             \* events/head: Absent, Null or an event id
    inode_snapshots,  \* .pmatic/inode_snapshots: trees that have hardlink backups
    ctx,              \* the context directory: [tree, writable]
    next_uuid,        \* the uuid1 generator
    crashes,          \* number of times the process was killed
    child_ops,        \* number of changes children have made to the context
    before,           \* history: started event id -> the context it snapshotted
    event_data,       \* EventLog.event_data (None and [] are both <<>>)
    pc,               \* position of the running operation
    op,               \* "none", "run" or "revert"
    pipeline,         \* pipeline_name of the operation
    dependencies,     \* "unchecked", "ok" or "failed"
    event,            \* the Event object being posted
    head_arg,         \* argument of the running save_new_head
    after,            \* where the running post_event / save_new_head returns to
    new_head_id,      \* local of revert_one
    child,            \* "none", "running", "exited", "raised"
    exit_code,        \* local of implement_run
    exception,        \* str(e) of the exception caught in implement_run
    outcome           \* how the last operation ended, as seen by its caller

disk == <<log_exists, db, new_dir, new_head, head, inode_snapshots, ctx>>
locals == <<op, pipeline, dependencies, event, head_arg, after, new_head_id,
            child, exit_code, exception>>
vars == <<log_exists, db, new_dir, new_head, head, inode_snapshots, ctx,
          next_uuid, crashes, child_ops, before, event_data, pc, op, pipeline, dependencies, event,
          head_arg, after, new_head_id, child, exit_code, exception,
          outcome>>

\* ------------------------------------------------------------------ events
\* Event.__init__: the attributes of an event (`when` is not modelled).
Event(id, pipeline_name, what, parent_event_id, snap, code, exc) ==
    [id |-> id, pipeline_name |-> pipeline_name, what |-> what,
     parent_event_id |-> parent_event_id, snapshot |-> snap,
     exit_code |-> code, exception |-> exc]

NoSnapshot == NoTree

NoEvent == Event(Null, "", "", Null, NoSnapshot, NoCode, "")

NoHeadFile == [present |-> FALSE, value |-> Null, complete |-> FALSE]

\* Variant: gen_uuid_str returning the same identifier at every call.
GenUuidStrConstant(n) == 1

\* gen_uuid_str: a fresh identifier.
GenUuidStr(n) == n

\* read_event: the data of db/<event_id>.yaml.
ReadEvent(event_id) == db[event_id].data

\* The loop of read_log: follow parent_event_id from event_id until it is
\* null.  `fuel` bounds the walk: a chain longer than the number of files in
\* db/ repeats an event, and Python would loop forever.
RECURSIVE ReadChain(_, _)
ReadChain(event_id, fuel) ==
    IF event_id = Null \/ event_id = Absent \/ fuel = 0 THEN <<>>
    ELSE IF event_id \notin DOMAIN db THEN <<>>
    ELSE <<ReadEvent(event_id)>>
            \o ReadChain(ReadEvent(event_id).parent_event_id, fuel - 1)

\* read_log terminates normally from event_id: every file it opens exists and
\* is complete, and it reaches a null parent_event_id.
RECURSIVE WalkTerminates(_, _)
WalkTerminates(event_id, fuel) ==
    IF event_id = Null THEN TRUE
    ELSE IF fuel = 0 THEN FALSE
    ELSE IF event_id \notin DOMAIN db THEN FALSE
    ELSE IF ~db[event_id].complete THEN FALSE
    ELSE WalkTerminates(ReadEvent(event_id).parent_event_id, fuel - 1)

\* read_log: the value it leaves in event_data.
ReadLog ==
    IF ~log_exists THEN <<>>
    ELSE IF head = Absent THEN <<>>
    ELSE ReadChain(head, Cardinality(DOMAIN db) + 1)

\* f with key k bound to v (a file created or replaced in a directory).
Put(f, k, v) == [x \in DOMAIN f \cup {k} |-> IF x = k THEN v ELSE f[x]]

\* f without key k (a file renamed away).
Remove(f, k) == [x \in DOMAIN f \ {k} |-> f[x]]

\* get_status on a cache value ed.
GetStatusOf(ed) ==
    IF ~log_exists THEN "never_run"
    ELSE LET data == IF ed = <<>> THEN ReadLog ELSE ed
         IN IF data = <<>> THEN "never_run" ELSE data[1].what

\* get_current_pipeline_name on a cache value ed ("" is None).
GetCurrentPipelineNameOf(ed) ==
    IF ~log_exists THEN ""
    ELSE LET data == IF ed = <<>> THEN ReadLog ELSE ed
         IN IF data = <<>> THEN "" ELSE data[1].pipeline_name

GetStatus == GetStatusOf(event_data)

GetCurrentPipelineName == GetCurrentPipelineNameOf(event_data)

\* ------------------------------------------------------------------- state
Init ==
    /\ log_exists = FALSE
    /\ db = <<>>
    /\ new_dir = <<>>
    /\ new_head = NoHeadFile
    /\ head = Absent
    /\ inode_snapshots = {}
    /\ ctx = [tree |-> 0, writable |-> TRUE]
    /\ next_uuid = 1
    /\ crashes = 0
    /\ child_ops = 0
    /\ before = <<>>
    /\ event_data = <<>>
    /\ pc = "idle"
    /\ op = "none"
    /\ pipeline = ""
    /\ dependencies = "unchecked"
    /\ event = NoEvent
    /\ head_arg = Null
    /\ after = ""
    /\ new_head_id = Null
    /\ child = "none"
    /\ exit_code = NoCode
    /\ exception = ""
    /\ outcome = "none"

\* ------------------------------------------------------------ dependencies
\* What os.path finds at a dependency's resolved path: whether the path
\* itself is a symbolic link, and what is there when links are followed
\* ("missing": nothing, or a broken link).
PathKinds ==
    [link : BOOLEAN, target : {"missing", "directory", "file", "executable"}]

\* SingleTaskPipeline.get_dependencies: {(executable, version, 'executable')}.
\* The pipeline document of pipeline p names the executable p.
GetDependencies(p) == {<<p, "1", "executable">>}

\* DependencyFinder.check_listed: (name, version) is a key of the registry.
CheckListed(d, registry) == <<d[1], d[2]>> \in registry

\* DependencyFinder.check_exists: os.path.exists of the resolved path.
CheckExists(d, fs) == fs[<<d[1], d[2]>>].target # "missing"

\* DependencyFinder.check_type: the kind test of the dependency's type
\* (os.path.isdir, os.path.isfile, is_executable, os.path.islink).
CheckType(d, fs) ==
    LET kind == fs[<<d[1], d[2]>>]
    IN CASE d[3] = "directory"  -> kind.target = "directory"
         [] d[3] = "file"       -> kind.target \in {"file", "executable"}
         [] d[3] = "executable" -> kind.target = "executable"
         [] d[3] = "link"       -> kind.link

\* The three sets computed by PipelineEngine.run.
Unlisted(deps, registry) == {d \in deps : ~CheckListed(d, registry)}

\* Variant: check_exists asked of every dependency.
MissingCandidatesAll(deps, registry) == deps

\* The dependencies check_exists is asked of: dependencies - unlisted.
MissingCandidates(deps, registry) == deps \ Unlisted(deps, registry)

Missing(deps, registry, fs) ==
    {d \in MissingCandidates(deps, registry) : ~CheckExists(d, fs)}

\* The dependencies check_type is asked of: dependencies - unlisted - missing.
BadTypeCandidates(deps, registry, fs) ==
    (deps \ Unlisted(deps, registry)) \ Missing(deps, registry, fs)

BadType(deps, registry, fs) ==
    {d \in BadTypeCandidates(deps, registry, fs) : ~CheckType(d, fs)}

\* path_and_type raises KeyError when check_exists or check_type is asked of
\* a dependency that the registry does not list.
RaisesKeyError(deps, registry) ==
    \E d \in MissingCandidates(deps, registry) : ~CheckListed(d, registry)

\* ---------------------------------------------------------------- the gate
\* Variant: the gate also letting a failed pipeline run again.
StatusGateAlsoFailed(current_status) ==
    current_status \in {"never_run", "finished", "failed"}

\* The test of PipelineEngine.run on current_status.
StatusGate(current_status) == current_status \in {"never_run", "finished"}

\* The locals of an operation that is starting.
ResetLocals(o, p) ==
    /\ op' = o
    /\ pipeline' = p
    /\ dependencies' = "unchecked"
    /\ event' = NoEvent
    /\ head_arg' = Null
    /\ after' = ""
    /\ new_head_id' = Null
    /\ child' = "none"
    /\ exit_code' = NoCode
    /\ exception' = ""

\* PipelineEngine.run up to the status gate: load_pipeline, ensure_log_exists,
\* read_log, get_current_pipeline_name, get_status, fail.
RunGate(p) ==
    /\ pc = "idle"
    /\ next_uuid + crashes + 1 <= MaxEvents
    /\ log_exists' = TRUE
    /\ LET ed == IF head = Absent THEN <<>>
                 ELSE ReadChain(head, Cardinality(DOMAIN db) + 1)
           current_status == IF ed = <<>> THEN "never_run" ELSE ed[1].what
       IN /\ event_data' = ed
          /\ IF StatusGate(current_status)
             THEN pc' = "check_deps" /\ outcome' = outcome
             ELSE pc' = "return" /\ outcome' = "refused"
    /\ ResetLocals("run", p)
    /\ UNCHANGED <<db, new_dir, new_head, head, inode_snapshots, ctx, next_uuid, crashes, child_ops, before>>

\* Variant: run going on after fail_dependencies.
CheckDependenciesGoesOn ==
    /\ pc = "check_deps"
    /\ \E listed \in BOOLEAN, kind \in PathKinds :
         LET deps == GetDependencies(pipeline)
             key == <<pipeline, "1">>
             registry == IF listed THEN {key} ELSE {}
             fs == [k \in {key} |-> kind]
             unlisted == Unlisted(deps, registry)
             missing == Missing(deps, registry, fs)
             bad_type == BadType(deps, registry, fs)
         IN IF unlisted # {} \/ missing # {} \/ bad_type # {}
            THEN /\ dependencies' = "failed"
                 /\ pc' = "record_started"
                 /\ outcome' = outcome
            ELSE /\ dependencies' = "ok"
                 /\ pc' = "record_started"
                 /\ outcome' = outcome
    /\ UNCHANGED <<disk, next_uuid, crashes, child_ops, before, event_data, op, pipeline, event, head_arg,
                   after, new_head_id, child, exit_code, exception>>

\* PipelineEngine.run, the dependency check: the registry and the filesystem
\* at the dependency's path are inputs.
CheckDependencies ==
    /\ pc = "check_deps"
    /\ \E listed \in BOOLEAN, kind \in PathKinds :
         LET deps == GetDependencies(pipeline)
             key == <<pipeline, "1">>
             registry == IF listed THEN {key} ELSE {}
             fs == [k \in {key} |-> kind]
             unlisted == Unlisted(deps, registry)
             missing == Missing(deps, registry, fs)
             bad_type == BadType(deps, registry, fs)
         IN IF unlisted # {} \/ missing # {} \/ bad_type # {}
            THEN /\ dependencies' = "failed"
                 /\ pc' = "return"
                 /\ outcome' = "dependency_error"
            ELSE /\ dependencies' = "ok"
                 /\ pc' = "record_started"
                 /\ outcome' = outcome
    /\ UNCHANGED <<disk, next_uuid, crashes, child_ops, before, event_data, op, pipeline, event, head_arg,
                   after, new_head_id, child, exit_code, exception>>

\* -------------------------------------------------------------- post_event
\* post_event up to the call of save_event: the parent is the newest cached
\* event, the new Event is inserted at the front of event_data.
PostEvent(pipeline_name, what, snap, code, exc, ret) ==
    LET parent_event_id == IF event_data # <<>> THEN event_data[1].id ELSE Null
        e == Event(GenUuidStr(next_uuid), pipeline_name, what,
                   parent_event_id, snap, code, exc)
    IN /\ event' = e
       /\ event_data' = <<e>> \o event_data
       /\ next_uuid' = next_uuid + 1
       /\ crashes' = crashes
       /\ child_ops' = child_ops
       /\ after' = ret
       /\ pc' = "save_event"

\* Variant: save_event writing the event file in db/ directly.
SaveEventOpenInDb ==
    /\ pc = "save_event"
    /\ new_dir' = Put(new_dir, event.id, [data |-> event, complete |-> FALSE])
    /\ db' = Put(db, event.id, [data |-> event, complete |-> FALSE])
    /\ pc' = "write_event"
    /\ UNCHANGED <<log_exists, new_head, head, inode_snapshots, ctx,
                   next_uuid, crashes, child_ops, before, event_data, locals, outcome>>

\* save_event, save_yaml_file: open(new/<id>.yaml, 'w') creates the file.
SaveEventOpen ==
    /\ pc = "save_event"
    /\ new_dir' = Put(new_dir, event.id, [data |-> event, complete |-> FALSE])
    /\ pc' = "write_event"
    /\ UNCHANGED <<log_exists, db, new_head, head, inode_snapshots, ctx,
                   next_uuid, crashes, child_ops, before, event_data, locals, outcome>>

\* save_event, save_yaml_file: safe_dump and close complete the file.
SaveEventWrite ==
    /\ pc = "write_event"
    /\ new_dir' = Put(new_dir, event.id, [data |-> event, complete |-> TRUE])
    /\ pc' = "rename_event"
    /\ UNCHANGED <<log_exists, db, new_head, head, inode_snapshots, ctx,
                   next_uuid, crashes, child_ops, before, event_data, locals, outcome>>

\* Variant: save_event renaming the new file onto the file of the parent event.
SaveEventRenameOntoParent ==
    /\ pc = "rename_event"
    /\ db' = Put(db, IF event.parent_event_id \in DOMAIN db
                     THEN event.parent_event_id ELSE event.id,
                 new_dir[event.id])
    /\ new_dir' = Remove(new_dir, event.id)
    /\ head_arg' = event.id
    /\ pc' = "save_head"
    /\ UNCHANGED <<log_exists, new_head, head, inode_snapshots, ctx, next_uuid, crashes, child_ops, before,
                   event_data, op, pipeline, dependencies, event, after,
                   new_head_id, child, exit_code, exception, outcome>>

\* save_event: os.rename(new/<id>.yaml, db/<id>.yaml); post_event then calls
\* save_new_head(event.id).
SaveEventRename ==
    /\ pc = "rename_event"
    /\ db' = Put(db, event.id, new_dir[event.id])
    /\ new_dir' = Remove(new_dir, event.id)
    /\ head_arg' = event.id
    /\ pc' = "save_head"
    /\ UNCHANGED <<log_exists, new_head, head, inode_snapshots, ctx, next_uuid, crashes, child_ops, before,
                   event_data, op, pipeline, dependencies, event, after,
                   new_head_id, child, exit_code, exception, outcome>>

\* save_new_head, save_yaml_file: open(new/head, 'w') creates or truncates.
SaveHeadOpen ==
    /\ pc = "save_head"
    /\ new_head' = [present |-> TRUE, value |-> head_arg, complete |-> FALSE]
    /\ pc' = "write_head"
    /\ UNCHANGED <<log_exists, db, new_dir, head, inode_snapshots, ctx,
                   next_uuid, crashes, child_ops, before, event_data, locals, outcome>>

\* save_new_head, save_yaml_file: safe_dump and close complete the file.
SaveHeadWrite ==
    /\ pc = "write_head"
    /\ new_head' = [present |-> TRUE, value |-> head_arg, complete |-> TRUE]
    /\ pc' = "rename_head"
    /\ UNCHANGED <<log_exists, db, new_dir, head, inode_snapshots, ctx,
                   next_uuid, crashes, child_ops, before, event_data, locals, outcome>>

\* save_new_head: os.rename(new/head, head), then return to the caller:
\* implement_run goes on (launch) or ends (finished, or raises), and
\* record_pipeline_reverted goes on to its own save_new_head.  An operation
\* that ends stays at "return" with its outcome until its caller takes it.
SaveHeadRename ==
    /\ pc = "rename_head"
    /\ head' = new_head.value
    /\ new_head' = NoHeadFile
    /\ IF after \in {"launch", "revert_head", "read_log"}
       THEN pc' = after /\ outcome' = outcome
       ELSE pc' = "return" /\ outcome' = after
    /\ UNCHANGED <<log_exists, db, new_dir, inode_snapshots, ctx, next_uuid, crashes, child_ops, before,
                   event_data, locals>>

\* --------------------------------------------------------------- recorders
\* Variant: record_pipeline_started called inside the try of implement_run.
RecordPipelineStartedInsideTry ==
    /\ pc = "record_started"
    /\ \E error \in {"none", "scan", "link", "chmod"} :
         IF error = "none"
         THEN /\ inode_snapshots' = inode_snapshots \cup {ctx.tree}
              /\ ctx' = [ctx EXCEPT !.writable = FALSE]
              /\ PostEvent(pipeline, "started", ctx.tree, NoCode, "",
                           "launch")
              /\ outcome' = outcome
              /\ before' = before
              /\ UNCHANGED <<child, exception>>
         ELSE /\ inode_snapshots' =
                    IF error = "chmod" THEN inode_snapshots \cup {ctx.tree}
                    ELSE inode_snapshots
              /\ ctx' = ctx
              /\ pc' = "record_failed"
              /\ outcome' = outcome
              /\ child' = "raised"
              /\ exception' = "OSError"
              /\ UNCHANGED <<event, event_data, next_uuid, crashes,
                             child_ops, before, after>>
    /\ UNCHANGED <<log_exists, db, new_dir, new_head, head, op, pipeline,
                   dependencies, head_arg, new_head_id, exit_code>>

\* implement_run up to record_pipeline_started: ensure_log_exists,
\* create_snapshot (scan, hardlink backups, write-bit masking), then the
\* in-memory part of post_event.  An I/O error of create_snapshot propagates
\* out of run: `error` names the step that raised.
RecordPipelineStarted ==
    /\ pc = "record_started"
    /\ \E error \in {"none", "scan", "link", "chmod"} :
         IF error = "none"
         THEN /\ inode_snapshots' = inode_snapshots \cup {ctx.tree}
              /\ ctx' = [ctx EXCEPT !.writable = FALSE]
              /\ PostEvent(pipeline, "started", ctx.tree, NoCode, "",
                           "launch")
              /\ outcome' = outcome
              /\ before' = before
         ELSE /\ inode_snapshots' =
                    IF error = "chmod" THEN inode_snapshots \cup {ctx.tree}
                    ELSE inode_snapshots
              /\ ctx' = ctx
              /\ pc' = "return"
              /\ outcome' = "snapshot_error"
              /\ UNCHANGED <<event, event_data, next_uuid, crashes, child_ops, before, after>>
    /\ UNCHANGED <<log_exists, db, new_dir, new_head, head, op, pipeline,
                   dependencies, head_arg, new_head_id, child, exit_code,
                   exception>>

\* Variant: implement_run launching the child before record_pipeline_started.
LaunchBeforeStarted ==
    /\ pc = "record_started"
    /\ child' = "running"
    /\ pc' = "wait"
    /\ UNCHANGED <<disk, next_uuid, crashes, child_ops, before, event_data, op, pipeline, dependencies,
                   event, head_arg, after, new_head_id, exit_code, exception,
                   outcome>>

\* implement_run: conditional_file opens stdin, stdout, stderr (opening
\* stdout or stderr for writing may create a file in the context), then
\* subprocess.Popen starts the child.  Either may raise.
Launch ==
    /\ pc = "launch"
    /\ \E t \in Trees, raised \in BOOLEAN :
         /\ ctx' = [ctx EXCEPT !.tree = t]
         /\ IF raised
            THEN /\ child' = "raised"
                 /\ exception' = "OSError"
                 /\ pc' = "record_failed"
            ELSE /\ child' = "running"
                 /\ exception' = ""
                 /\ pc' = "wait"
    /\ UNCHANGED <<log_exists, db, new_dir, new_head, head, inode_snapshots,
                   next_uuid, crashes, child_ops, before, event_data, op, pipeline, dependencies, event,
                   head_arg, after, new_head_id, exit_code, outcome>>

\* Variant: implement_run recording finished whatever the exit code.
WaitIgnoresExitCode ==
    /\ pc = "wait"
    /\ \E t \in Trees, w \in BOOLEAN, code \in ExitCodes :
         /\ ctx' = [tree |-> t, writable |-> w]
         /\ child' = "exited"
         /\ exception' = ""
         /\ exit_code' = code
         /\ pc' = "record_finished"
    /\ UNCHANGED <<log_exists, db, new_dir, new_head, head, inode_snapshots,
                   next_uuid, crashes, child_ops, before, event_data, op, pipeline, dependencies,
                   event, head_arg, after, new_head_id, outcome>>

\* implement_run: proc.wait() returns the exit code, or raises.  The child
\* has changed the context as it liked (it may restore the write bits).
Wait ==
    /\ pc = "wait"
    /\ \E t \in Trees, w \in BOOLEAN, code \in ExitCodes, raised \in BOOLEAN :
         /\ ctx' = [tree |-> t, writable |-> w]
         /\ IF raised
            THEN /\ child' = "raised"
                 /\ exception' = "OSError"
                 /\ exit_code' = NoCode
                 /\ pc' = "record_failed"
            ELSE /\ child' = "exited"
                 /\ exception' = ""
                 /\ exit_code' = code
                 /\ pc' = IF code = 0 THEN "record_finished"
                          ELSE "record_failed"
    /\ UNCHANGED <<log_exists, db, new_dir, new_head, head, inode_snapshots,
                   next_uuid, crashes, child_ops, before, event_data, op, pipeline, dependencies, event,
                   head_arg, after, new_head_id, outcome>>

\* Variant: record_pipeline_finished posting under the name of the oldest
\* event of the log.
RecordPipelineFinishedOldestName ==
    /\ pc = "record_finished"
    /\ PostEvent(event_data[Len(event_data)].pipeline_name, "finished",
                 NoSnapshot, NoCode, "", "finished")
    /\ UNCHANGED <<disk, before, op, pipeline, dependencies, head_arg, new_head_id,
                   child, exit_code, exception, outcome>>

\* implement_run, exit_code == 0: record_pipeline_finished.
RecordPipelineFinished ==
    /\ pc = "record_finished"
    /\ PostEvent(pipeline, "finished", NoSnapshot, NoCode, "", "finished")
    /\ UNCHANGED <<disk, before, op, pipeline, dependencies, head_arg, new_head_id,
                   child, exit_code, exception, outcome>>

\* implement_run: record_pipeline_failed(exception=str(e)) in the except
\* clause, record_pipeline_failed(exit_code=exit_code) in the else clause.
RecordPipelineFailed ==
    /\ pc = "record_failed"
    /\ IF child = "raised"
       THEN PostEvent(pipeline, "failed", NoSnapshot, NoCode, exception,
                      "exception")
       ELSE PostEvent(pipeline, "failed", NoSnapshot, exit_code, "",
                      "exit_code_error")
    /\ UNCHANGED <<disk, before, op, pipeline, dependencies, head_arg, new_head_id,
                   child, exit_code, exception, outcome>>

\* ------------------------------------------------------------------ revert
\* Variant: the loop of revert_one stopping at the oldest started event.
OldestStarted(ed) ==
    IF \E i \in 1..Len(ed) : ed[i].what = "started"
    THEN ed[CHOOSE i \in 1..Len(ed) :
                /\ ed[i].what = "started"
                /\ \A j \in (i + 1)..Len(ed) : ed[j].what # "started"]
    ELSE ed[Len(ed)]

\* The for loop of revert_one: the first `started` event of event_data, or
\* its last event when the loop ends without break.
NewestStarted(ed) ==
    IF \E i \in 1..Len(ed) : ed[i].what = "started"
    THEN ed[CHOOSE i \in 1..Len(ed) :
                /\ ed[i].what = "started"
                /\ \A j \in 1..(i - 1) : ed[j].what # "started"]
    ELSE ed[Len(ed)]

\* Variant: revert_one without its assertions on an empty log, going on to
\* record_pipeline_reverted.
RevertOneRecordsAnyway ==
    /\ pc = "idle"
    /\ next_uuid + crashes <= MaxEvents
    /\ LET ed == ReadLog
           pipeline_name == GetCurrentPipelineNameOf(ed)
       IN /\ event_data' = ed
          /\ ResetLocals("revert", pipeline_name)
          /\ outcome' = outcome
          /\ pc' = IF ed = <<>> THEN "record_reverted" ELSE "restore_snapshot"
    /\ UNCHANGED <<disk, next_uuid, crashes, child_ops, before>>

\* revert_one up to restore_snapshot: read_log, get_current_pipeline_name and
\* the assertions.
RevertOne ==
    /\ pc = "idle"
    /\ next_uuid + crashes <= MaxEvents
    /\ LET ed == ReadLog
           pipeline_name == GetCurrentPipelineNameOf(ed)
       IN /\ event_data' = ed
          /\ IF /\ pipeline_name # ""
                /\ NewestStarted(ed).what = "started"
                /\ NewestStarted(ed).pipeline_name = pipeline_name
             THEN /\ ResetLocals("revert", pipeline_name)
                  /\ pc' = "restore_snapshot"
                  /\ outcome' = outcome
             ELSE /\ ResetLocals("revert", pipeline_name)
                  /\ pc' = "return"
                  /\ outcome' = "assertion_error"
    /\ UNCHANGED <<disk, next_uuid, crashes, child_ops, before>>

\* Variant: revert_one resetting head to the started event itself.
RevertNewHeadIdIsStarted == NewestStarted(event_data).id

\* revert_one: new_head_id = event.parent_event_id, then
\* restore_snapshot(event.snapshot).  The recorded modes are re-applied
\* (with or without write bits, as they were when the snapshot was taken);
\* the restored tree is the snapshot's unless a backup was altered through
\* its hardlink, so the tree it leaves is not determined here.  An exception
\* of restore_snapshot (os.symlink, os.link or os.mkdir failing) propagates
\* out of revert_one.
RevertNewHeadId == NewestStarted(event_data).parent_event_id

RestoreSnapshot ==
    /\ pc = "restore_snapshot"
    /\ new_head_id' = RevertNewHeadId
    /\ \E t \in Trees, w \in BOOLEAN, error \in {"none", "OSError", "TypeError"} :
         /\ ctx' = [tree |-> t, writable |-> w]
         /\ IF error = "none"
            THEN pc' = "record_reverted" /\ outcome' = outcome
            ELSE pc' = "return" /\ outcome' = error
    /\ UNCHANGED <<log_exists, db, new_dir, new_head, head, inode_snapshots,
                   next_uuid, crashes, child_ops, before, event_data, op,
                   pipeline, dependencies, event, head_arg, after, child,
                   exit_code, exception>>

\* Variant: the reverted event posted without a parent.
RecordPipelineRevertedNullParent ==
    /\ pc = "record_reverted"
    /\ event' = Event(GenUuidStr(next_uuid), pipeline, "reverted", Null,
                      NoSnapshot, NoCode, "")
    /\ event_data' = <<event'>> \o event_data
    /\ next_uuid' = next_uuid + 1
    /\ after' = "revert_head"
    /\ pc' = "save_event"
    /\ UNCHANGED <<disk, crashes, child_ops, before, op, pipeline, dependencies, head_arg,
                   new_head_id, child, exit_code, exception, outcome>>

\* record_pipeline_reverted up to save_event: ensure_log_exists and the
\* in-memory part of post_event.
RecordPipelineReverted ==
    /\ pc = "record_reverted"
    /\ PostEvent(pipeline, "reverted", NoSnapshot, NoCode, "", "revert_head")
    /\ UNCHANGED <<disk, before, op, pipeline, dependencies, head_arg, new_head_id,
                   child, exit_code, exception, outcome>>

\* Variant: record_pipeline_reverted without its save_new_head.
RevertSaveNewHeadSkipped ==
    /\ pc = "revert_head"
    /\ pc' = "read_log"
    /\ UNCHANGED <<disk, next_uuid, crashes, child_ops, before, event_data, locals, outcome>>

\* record_pipeline_reverted: self.save_new_head(new_head_id).
RevertSaveNewHead ==
    /\ pc = "revert_head"
    /\ head_arg' = new_head_id
    /\ after' = "read_log"
    /\ pc' = "save_head"
    /\ UNCHANGED <<disk, next_uuid, crashes, child_ops, before, event_data, op, pipeline, dependencies,
                   event, new_head_id, child, exit_code, exception, outcome>>

\* Variant: revert_one without its final read_log.
RevertReadLogSkipped ==
    /\ pc = "read_log"
    /\ pc' = "return"
    /\ outcome' = "reverted"
    /\ UNCHANGED <<disk, next_uuid, crashes, child_ops, before, event_data, locals>>

\* revert_one: the final self.read_log().
RevertReadLog ==
    /\ pc = "read_log"
    /\ event_data' = ReadLog
    /\ pc' = "return"
    /\ outcome' = "reverted"
    /\ UNCHANGED <<disk, next_uuid, crashes, child_ops, before, locals>>

\* ----------------------------------------------------------------- process
\* The operation returns (or raises, or exits) to its caller: its locals are
\* gone, the EventLog object and its cache stay.
Return ==
    /\ pc = "return"
    /\ pc' = "idle"
    /\ outcome' = "none"
    /\ ResetLocals("none", "")
    /\ UNCHANGED <<disk, next_uuid, crashes, child_ops, before, event_data>>

\* A new process: PipelineEngine.__init__ builds a fresh EventLog, whose
\* event_data is None.
Restart ==
    /\ pc = "idle"
    /\ event_data # <<>>
    /\ event_data' = <<>>
    /\ UNCHANGED <<disk, next_uuid, crashes, child_ops, before, pc, locals, outcome>>

\* The process is killed in the middle of an operation: the disk stays as it
\* is, the memory is lost.
Crash ==
    /\ pc \notin {"idle", "return"}
    /\ next_uuid + crashes <= MaxEvents
    /\ crashes' = crashes + 1
    /\ child_ops' = child_ops
    /\ before' = before
    /\ pc' = "idle"
    /\ event_data' = <<>>
    /\ outcome' = "none"
    /\ ResetLocals("none", "")
    /\ UNCHANGED <<disk, next_uuid>>

Next ==
    \/ \E p \in PipelineNames : RunGate(p)
    \/ CheckDependencies
    \/ RecordPipelineStarted
    \/ SaveEventOpen
    \/ SaveEventWrite
    \/ SaveEventRename
    \/ SaveHeadOpen
    \/ SaveHeadWrite
    \/ SaveHeadRename
    \/ Launch
    \/ Wait
    \/ RecordPipelineFinished
    \/ RecordPipelineFailed
    \/ RevertOne
    \/ RestoreSnapshot
    \/ RecordPipelineReverted
    \/ RevertSaveNewHead
    \/ RevertReadLog
    \/ Return
    \/ Restart

Spec == Init /\ [][Next]_vars

NextCrash == Next \/ Crash

CrashSpec == Init /\ [][NextCrash]_vars

\* Every variable has a value of its type.
TypeOK ==
    /\ log_exists \in BOOLEAN
    /\ head \in {Absent, Null} \cup (1..MaxEvents)
    /\ DOMAIN db \subseteq 1..MaxEvents
    /\ DOMAIN new_dir \subseteq 1..MaxEvents
    /\ inode_snapshots \subseteq Trees
    /\ ctx.tree \in Trees
    /\ next_uuid \in 1..(MaxEvents + 1)
    /\ pc \in {"idle", "check_deps", "record_started", "save_event",
               "write_event", "rename_event", "save_head", "write_head",
               "rename_head", "launch", "wait", "record_finished",
               "record_failed", "restore_snapshot", "record_reverted",
               "revert_head", "read_log", "return"}
    /\ op \in {"none", "run", "revert"}
    /\ child \in {"none", "running", "exited", "raised"}
    /\ \A i \in 1..Len(event_data) : event_data[i].what \in EVENT_TYPES

\* ------------------------------------------------- the dependency check
\* The categorisation of PipelineEngine.run on sets of dependencies.  In
\* DepSpec the variable dependencies is the record of the inputs (the set
\* get_dependencies returned, the keys of the registry, what is at each
\* listed path) and of the locals unlisted, missing and bad_type.

\* Names and types of dependencies.
DependencyNames == {"echo", "cat", "sh"}

DependencyTypes == {"directory", "file", "executable", "link"}

DependencyTriples == DependencyNames \X {"1"} \X DependencyTypes

\* The sets of at most MaxDeps triples.
DependencySets ==
    {deps \in SUBSET DependencyTriples : Cardinality(deps) <= MaxDeps}

\* The registries: the (name, version) keys of deployments.yaml.
Registries == SUBSET (DependencyNames \X {"1"})

\* run has passed the status gate of a context that was never run; the
\* pipeline, the registry and the filesystem are any of the inputs.
DepInit ==
    /\ log_exists = TRUE
    /\ db = <<>>
    /\ new_dir = <<>>
    /\ new_head = NoHeadFile
    /\ head = Absent
    /\ inode_snapshots = {}
    /\ ctx = [tree |-> 0, writable |-> TRUE]
    /\ next_uuid = 1
    /\ crashes = 0
    /\ child_ops = 0
    /\ before = <<>>
    /\ event_data = <<>>
    /\ pc = "check_deps"
    /\ op = "run"
    /\ pipeline = "hello"
    /\ \E deps \in DependencySets, registry \in Registries :
         \E fs \in [registry -> PathKinds] :
            dependencies = [dependencies |-> deps, registry |-> registry,
                            fs |-> fs, unlisted |-> {}, missing |-> {},
                            bad_type |-> {}, error |-> "none"]
    /\ event = NoEvent
    /\ head_arg = Null
    /\ after = ""
    /\ new_head_id = Null
    /\ child = "none"
    /\ exit_code = NoCode
    /\ exception = ""
    /\ outcome = "none"

\* PipelineEngine.run, the dependency check on the inputs: the three sets,
\* then fail_dependencies or pipeline.run; see CheckDependencies.
DepCheck ==
    /\ pc = "check_deps"
    /\ LET deps == dependencies.dependencies
           registry == dependencies.registry
           fs == dependencies.fs
       IN IF RaisesKeyError(deps, registry)
          THEN /\ dependencies' = [dependencies EXCEPT !.error = "KeyError"]
               /\ pc' = "return"
               /\ outcome' = "KeyError"
          ELSE LET unlisted == Unlisted(deps, registry)
                   missing == Missing(deps, registry, fs)
                   bad_type == BadType(deps, registry, fs)
               IN /\ dependencies' = [dependencies EXCEPT
                                         !.unlisted = unlisted,
                                         !.missing = missing,
                                         !.bad_type = bad_type]
                  /\ IF unlisted # {} \/ missing # {} \/ bad_type # {}
                     THEN pc' = "return" /\ outcome' = "dependency_error"
                     ELSE pc' = "record_started" /\ outcome' = outcome
    /\ UNCHANGED <<disk, next_uuid, crashes, child_ops, before, event_data,
                   op, pipeline, event, head_arg, after, new_head_id, child,
                   exit_code, exception>>

DepNext == DepCheck

DepSpec == DepInit /\ [][DepNext]_vars

\* =========================================================== the filesystem
\* The context directory in detail.  In FsSpec the variable ctx is the record
\* [files, inodes, trash_cans]: files maps each relative path that exists in
\* the context to its directory entry [format, inode, symlink, mode]; inodes
\* maps each allocated inode number to its [content, mode]; trash_cans is the
\* sequence of the directories .trash_cans/<timestamp> that restore_snapshot
\* makes, oldest first, each a map from relative path to entry.
\* inode_snapshots maps each file name of .pmatic/inode_snapshots (an inode
\* number) to the inode the hardlink refers to.  A started event embeds the
\* dict create_snapshot returned.  FsSpec leaves the reserved directories out
\* of files; ReservedSpec has them there, as the directories they are.

META_DIR_NAME == ".pmatic"

TRASH_DIR_NAME == ".trash_cans"

\* The relative paths of the model, in the order of Python's sorted().
Keys ==
    <<".pmatic", ".pmatic/events", ".trash_cans", ".trash_cans/old",
      "alias", "data.txt", "dir", "dir/.pmatic", "dir/f">>

\* The paths of the user's entries in FsSpec.
KeySet == {"alias", "data.txt", "dir", "dir/f"}

\* os.path.dirname of a relative path ("" is the context directory itself).
Dirname(key) ==
    CASE key \in {"dir/f", "dir/.pmatic"} -> "dir"
      [] key = ".pmatic/events" -> META_DIR_NAME
      [] key = ".trash_cans/old" -> TRASH_DIR_NAME
      [] OTHER -> ""


\* File contents; st_size is the length.
Contents == {"A", "B", "CC"}


\* Permission bits are the integers of stat.S_IMODE; in octal 0644 is 420,
\* 0444 is 292, 06775 is 3581, 0755 is 493, 0775 is 509 and 0777 is 511.

\* The operator & of Python on non-negative integers.
RECURSIVE BitAnd(_, _)
BitAnd(a, b) ==
    IF a = 0 \/ b = 0 THEN 0
    ELSE 2 * BitAnd(a \div 2, b \div 2)
            + (IF a % 2 = 1 /\ b % 2 = 1 THEN 1 ELSE 0)

\* The owner write bit, 0200, and the three write bits, 0222.
S_IWUSR == 128

WriteBits == 146

\* The modes of the regular files of a context handed to pmatic: 0444, 0644
\* and 06775 (set-uid, set-gid, writable by owner and group, executable).
Modes == {292, 420, 3581}

\* The mode os.mkdir and open give with the usual umask 022, and the mode of
\* a symbolic link.
MkdirMode == 493

CreatMode == 420

LnkMode == 511

\* Variant: the mask clearing the set-uid, set-gid and sticky bits too.
MaskWriteBits0555(mode) == BitAnd(mode, 365)

\* create_snapshot: new_mode = mode & 07555 (07555 is 3949).
MaskWriteBits(mode) == BitAnd(mode, 3949)

\* Python's None in the symlink field of a record.
None == "None"

\* Directory entries.  The mode of a regular file is kept in its inode
\* (hard links share it), the mode of a directory or link in its entry.
RegEntry(inode) ==
    [format |-> "REG", inode |-> inode, symlink |-> None, mode |-> 0]

DirEntry(mode) ==
    [format |-> "DIR", inode |-> 0, symlink |-> None, mode |-> mode]

LnkEntry(target) ==
    [format |-> "LNK", inode |-> 0, symlink |-> target, mode |-> LnkMode]

\* os.path.lexists(path).
Lexists(c, key) == key \in DOMAIN c.files

\* os.path.islink(path).
Islink(c, key) == Lexists(c, key) /\ c.files[key].format = "LNK"

\* The entry os.stat finds at a path, following symbolic links; a link of the
\* model points to a sibling that is not a link.
Resolve(c, key) ==
    IF ~Lexists(c, key) THEN key
    ELSE IF c.files[key].format = "LNK" THEN c.files[key].symlink
    ELSE key

\* os.path.exists(path): False for a broken symbolic link.
Exists(c, key) ==
    /\ Lexists(c, key)
    /\ Lexists(c, Resolve(c, key))
    /\ ~Islink(c, Resolve(c, key))

\* os.path.isdir(path): follows symbolic links.
Isdir(c, key) == Exists(c, key) /\ c.files[Resolve(c, key)].format = "DIR"

\* stat_item: the tuple (format, mode, size, inode, symlink) of os.lstat.
StatItem(c, key) ==
    LET e == c.files[key]
    IN [format |-> e.format,
        mode |-> IF e.format = "REG" THEN c.inodes[e.inode].mode ELSE e.mode,
        size |-> IF e.format = "REG" THEN Len(c.inodes[e.inode].content)
                 ELSE IF e.format = "LNK" THEN Len(e.symlink)
                 ELSE 0,
        inode |-> IF e.format \in {"DIR", "LNK"} THEN 0 ELSE e.inode,
        symlink |-> IF e.format = "LNK" THEN e.symlink ELSE None]


\* scan_directory: the default exclude_paths.
ExcludePaths == {META_DIR_NAME, TRASH_DIR_NAME}

\* Variant: scan_directory removing nothing from dir_names.
PrunedNothing(c, key) == FALSE

\* scan_directory: the dir_names entry whose key (its path relative to
\* start_path) is in exclude_paths is not recorded and is removed from
\* dir_names, so that os.walk does not descend into it.  file_names entries
\* are not tested.
Pruned(c, key) == Isdir(c, key) /\ key \in ExcludePaths

\* The paths os.walk lists: the entries of start_path and of every directory
\* it descends into, which are the entries left in dir_names that are not
\* symbolic links.  The paths of the model have at most two components.
Walked(c) ==
    {key \in DOMAIN c.files :
        \/ Dirname(key) = ""
        \/ /\ Dirname(key) \in DOMAIN c.files
           /\ c.files[Dirname(key)].format = "DIR"
           /\ ~Pruned(c, Dirname(key))}

\* scan_directory: os.walk lists an entry in dir_names when os.path.isdir is
\* true of it (a directory, or a symbolic link to one) and in file_names
\* otherwise; the record of a dir_names entry gets None as its symlink.
ScanDirectory(c) ==
    [key \in {k \in Walked(c) : ~Pruned(c, k)} |->
        IF Isdir(c, key) THEN [StatItem(c, key) EXCEPT !.symlink = None]
        ELSE StatItem(c, key)]

\* Python's None in place of a record (snapshot_dict.get of a missing key).
NoRecord ==
    [format |-> "None", mode |-> "None", size |-> 0, inode |-> 0,
     symlink |-> None]

\* snapshot_dict.get(key).
Get(snapshot_dict, key) ==
    IF key \in DOMAIN snapshot_dict THEN snapshot_dict[key] ELSE NoRecord

\* Variant: strip_permissions leaving the mode in the record.
StripPermissionsKeepsMode(record) == record

\* strip_permissions: the record without its mode.
StripPermissions(record) ==
    [format |-> record.format, size |-> record.size,
     inode |-> record.inode, symlink |-> record.symlink]

\* The inodes that still have a link: from the context, from inode_snapshots
\* or from a trash can.  The filesystem frees the others.
Linked(c, store) ==
    {c.files[k].inode : k \in {x \in DOMAIN c.files : c.files[x].format = "REG"}}
    \cup {store[n] : n \in DOMAIN store}
    \cup UNION {{c.trash_cans[i][k].inode :
                    k \in {x \in DOMAIN c.trash_cans[i] :
                              c.trash_cans[i][x].format = "REG"}} :
                i \in 1..Len(c.trash_cans)}

\* The context with the inodes that lost their last link freed.
Collect(c, store) ==
    [c EXCEPT !.inodes = [i \in DOMAIN c.inodes \cap Linked(c, store) |->
                             c.inodes[i]]]

\* The inode number a newly created file gets: the lowest free one.
FreshInode(c) ==
    CHOOSE i \in 1..(Cardinality(DOMAIN c.inodes) + 1) : i \notin DOMAIN c.inodes

\* Variant: create_snapshot keeping a link of that name whatever it refers to.
SnapshotItemKeepsLink(st, key, record) ==
    IF st.error # "none" THEN st
    ELSE IF ~Exists(st.ctx, key) THEN [st EXCEPT !.error = "AssertionError"]
    ELSE
      LET path_inode == st.ctx.files[key].inode
          linked == IF /\ record.format \notin {"DIR", "LNK"}
                       /\ record.inode \notin DOMAIN st.store
                    THEN Put(st.store, record.inode, path_inode)
                    ELSE st.store
          masked == IF record.format = "REG"
                    THEN [st.ctx EXCEPT !.inodes[path_inode].mode =
                                           MaskWriteBits(record.mode)]
                    ELSE st.ctx
      IN [ctx |-> Collect(masked, linked), store |-> linked, error |-> "none"]

\* One iteration of the loop of create_snapshot, on st = [ctx, store, error].
\* The assertion fails on a broken symbolic link.
SnapshotItem(st, key, record) ==
    IF st.error # "none" THEN st
    ELSE IF ~Exists(st.ctx, key) THEN [st EXCEPT !.error = "AssertionError"]
    ELSE
      LET path_inode == st.ctx.files[key].inode
          inode_file == record.inode
          removed == IF /\ inode_file \in DOMAIN st.store
                        /\ st.store[inode_file] # path_inode
                     THEN Remove(st.store, inode_file)
                     ELSE st.store
          linked == IF record.format \notin {"DIR", "LNK"}
                    THEN IF inode_file \notin DOMAIN removed
                         THEN Put(removed, inode_file, path_inode)
                         ELSE removed
                    ELSE st.store
          masked == IF record.format = "REG"
                    THEN [st.ctx EXCEPT !.inodes[path_inode].mode =
                                           MaskWriteBits(record.mode)]
                    ELSE st.ctx
      IN [ctx |-> Collect(masked, linked), store |-> linked, error |-> "none"]

\* The loop of create_snapshot over the items of result, taken in `order`.
RECURSIVE SnapshotLoop(_, _, _)
SnapshotLoop(st, result, order) ==
    IF order = <<>> THEN st
    ELSE SnapshotLoop(SnapshotItem(st, Head(order), result[Head(order)]),
                      result, Tail(order))

\* create_snapshot: the scan, then the loop; `order` is the order in which
\* the dict yields its items, `steps` the number of items after which an I/O
\* error stops the loop (Len(order) + 1: none does).
CreateSnapshot(c, store, order, steps) ==
    LET result == ScanDirectory(c)
        prefix == SubSeq(order, 1, IF steps > Len(order) THEN Len(order)
                                   ELSE steps)
        st == SnapshotLoop([ctx |-> c, store |-> store, error |-> "none"],
                           result, prefix)
    IN [ctx |-> st.ctx, store |-> st.store, result |-> result,
        error |-> IF st.error # "none" THEN st.error
                  ELSE IF steps <= Len(order) THEN "OSError"
                  ELSE "none"]

\* The entries of m at key and below it.
Subtree(m, key) == {k \in DOMAIN m : k = key \/ Dirname(k) = key}

\* m without the keys of ks.
Without(m, ks) == [k \in DOMAIN m \ ks |-> m[k]]

\* TrashCan.trash(rel_path) on st = [ctx, can, error]: ensure_directory_exists
\* makes the directories of the destination; a directory whose destination
\* exists is removed with os.rmdir (which needs it empty), anything else is
\* renamed into the can, a directory together with what it holds.
Trash(st, rel_path) ==
    LET rel_dir_path == Dirname(rel_path)
        made == IF rel_dir_path = "" \/ rel_dir_path \in DOMAIN st.can
                THEN st.can
                ELSE Put(st.can, rel_dir_path, DirEntry(MkdirMode))
        moved == Subtree(st.ctx.files, rel_path)
    IN IF rel_dir_path # "" /\ made[rel_dir_path].format # "DIR"
       THEN [st EXCEPT !.error = "OSError"]
       ELSE IF Isdir(st.ctx, rel_path) /\ rel_path \in DOMAIN made
       THEN IF st.ctx.files[rel_path].format = "DIR" /\ moved = {rel_path}
            THEN [st EXCEPT !.ctx.files = Without(@, {rel_path}),
                            !.can = made]
            ELSE [st EXCEPT !.can = made, !.error = "OSError"]
       ELSE [st EXCEPT
               !.ctx.files = Without(@, moved),
               !.can = [k \in DOMAIN made \cup moved |->
                           IF k \in moved THEN st.ctx.files[k] ELSE made[k]]]

\* "Delete anything new": the first loop of restore_snapshot, over the sorted
\* items of current_scan from position i on.
RECURSIVE DeleteNew(_, _, _, _)
DeleteNew(st, snapshot_dict, current_scan, i) ==
    IF i > Len(Keys) \/ st.error # "none" THEN st
    ELSE LET key == Keys[i]
         IN IF /\ key \in DOMAIN current_scan
               /\ StripPermissions(current_scan[key])
                    # StripPermissions(Get(snapshot_dict, key))
               /\ Lexists(st.ctx, key)
            THEN DeleteNew(Trash(st, key), snapshot_dict, current_scan, i + 1)
            ELSE DeleteNew(st, snapshot_dict, current_scan, i + 1)


\* The test of the second loop of restore_snapshot: not os.path.exists(path).
RestoreMissing(c, key) == ~Exists(c, key)

\* One iteration of "Restore anything old" on st = [ctx, can, error]: the
\* entry is made again when the path does not exist (os.mkdir, os.symlink,
\* os.link raise when something is at the path, or when the directory of the
\* path is missing; os.symlink raises on None), then lchmod applies the mode
\* (os.chmod for what is not a symbolic link; the host has no os.lchmod).
RestoreItem(st, store, key, record) ==
    IF st.error # "none" THEN st
    ELSE
      LET c == st.ctx
          parent_ok == Dirname(key) = "" \/ Isdir(c, Dirname(key))
          made ==
            IF ~RestoreMissing(c, key) THEN st
            ELSE IF record.format = "LNK" /\ record.symlink = None
            THEN [st EXCEPT !.error = "TypeError"]
            ELSE IF Lexists(c, key) \/ ~parent_ok
            THEN [st EXCEPT !.error = "OSError"]
            ELSE IF record.format = "DIR"
            THEN [st EXCEPT !.ctx.files = Put(@, key, DirEntry(MkdirMode))]
            ELSE IF record.format = "LNK"
            THEN [st EXCEPT !.ctx.files = Put(@, key, LnkEntry(record.symlink))]
            ELSE IF record.inode \notin DOMAIN store
            THEN [st EXCEPT !.error = "OSError"]
            ELSE [st EXCEPT
                    !.ctx.files = Put(@, key, RegEntry(store[record.inode]))]
      IN IF made.error # "none" THEN made
         ELSE IF Islink(made.ctx, key) THEN made
         ELSE IF ~Exists(made.ctx, key) THEN [made EXCEPT !.error = "OSError"]
         ELSE IF made.ctx.files[key].format = "REG"
         THEN [made EXCEPT
                 !.ctx.inodes[made.ctx.files[key].inode].mode = record.mode]
         ELSE [made EXCEPT !.ctx.files[key].mode = record.mode]

\* "Restore anything old": the second loop of restore_snapshot, over the
\* sorted items of snapshot_dict from position i on.
RECURSIVE RestoreOld(_, _, _, _)
RestoreOld(st, store, snapshot_dict, i) ==
    IF i > Len(Keys) \/ st.error # "none" THEN st
    ELSE LET key == Keys[i]
         IN IF key \in DOMAIN snapshot_dict
            THEN RestoreOld(RestoreItem(st, store, key, snapshot_dict[key]),
                            store, snapshot_dict, i + 1)
            ELSE RestoreOld(st, store, snapshot_dict, i + 1)

\* restore_snapshot(snapshot_dict, context_path): the context it leaves and
\* the exception it raises ("none": it returns).  The trash can directory
\* exists once something was moved into it.
RestoreSnapshotOf(c, store, snapshot_dict) ==
    LET start == [ctx |-> c, can |-> <<>>, error |-> "none"]
        deleted == DeleteNew(start, snapshot_dict, ScanDirectory(c), 1)
        restored == RestoreOld(deleted, store, snapshot_dict, 1)
        cans == IF DOMAIN restored.can = {} THEN c.trash_cans
                ELSE Append(c.trash_cans, restored.can)
    IN [ctx |-> [restored.ctx EXCEPT !.trash_cans = cans],
        error |-> restored.error]

\* --------------------------------------------------- the child's changes
\* What the child (or the files opened for its stdout and stderr) does to the
\* context while it runs.  MaxChildOps bounds the number of changes.

\* chmod u+w of a regular file.
ChildChmod(c, key) ==
    [c EXCEPT !.inodes[c.files[key].inode].mode = @ + S_IWUSR]

\* A write to a regular file in place: same inode, new bytes.
ChildWrite(c, key, content) ==
    [c EXCEPT !.inodes[c.files[key].inode].content = content]

\* A new regular file at key: created there, or renamed over what was there.
ChildReplace(c, key, content) ==
    LET inode == FreshInode(c)
    IN [c EXCEPT !.files = Put(@, key, RegEntry(inode)),
                 !.inodes = Put(@, inode, [content |-> content,
                                           mode |-> CreatMode])]

\* rm -r of key.
ChildRemove(c, key) ==
    [c EXCEPT !.files = Without(@, Subtree(c.files, key))]

\* mkdir of key.
ChildMkdir(c, key) ==
    [c EXCEPT !.files = Put(@, key, DirEntry(MkdirMode))]

\* ln -sfn target key.
ChildSymlink(c, key, target) ==
    [c EXCEPT !.files = Put(@, key, LnkEntry(target))]

\* The contexts one change leads to.
ChildChanges(c) ==
    LET parent_ok(key) == Dirname(key) = "" \/ Isdir(c, Dirname(key))
        reg == {k \in DOMAIN c.files : c.files[k].format = "REG"}
    IN {ChildChmod(c, k) : k \in {x \in reg :
                                     BitAnd(c.inodes[c.files[x].inode].mode,
                                            S_IWUSR) = 0}}
       \cup UNION {{ChildWrite(c, k, content) :
                       content \in Contents
                                     \ {c.inodes[c.files[k].inode].content}} :
                   k \in {x \in reg :
                             BitAnd(c.inodes[c.files[x].inode].mode,
                                    S_IWUSR) # 0}}
       \cup UNION {{ChildReplace(c, k, content) : content \in {"B", "CC"}} :
                   k \in {x \in KeySet \ {"alias"} :
                             /\ parent_ok(x)
                             /\ x \in DOMAIN c.files => c.files[x].format # "DIR"}}
       \cup {ChildRemove(c, k) : k \in DOMAIN c.files}
       \cup {ChildMkdir(c, k) : k \in {"dir"} \ DOMAIN c.files}
       \cup {ChildSymlink(c, "alias", target) :
                target \in {"data.txt", "dir"}
                             \ {Get(c.files, "alias").symlink}}

\* ------------------------------------------- run and revert on the context
\* The orders in which a dict with the keys ks can yield its items.
Orders(ks) ==
    {order \in [1..Cardinality(ks) -> ks] :
        \A i, j \in 1..Cardinality(ks) : order[i] = order[j] => i = j}

\* PipelineEngine.run up to the status gate, for the first run of the context
\* (db/ holds no event yet): see RunGate.
FsRunGate == DOMAIN db = {} /\ RunGate("hello")

\* implement_run up to record_pipeline_started, with create_snapshot on the
\* context: see RecordPipelineStarted.
FsRecordPipelineStarted ==
    /\ pc = "record_started"
    /\ \E order \in Orders(DOMAIN ctx.files),
          steps \in 0..(Cardinality(DOMAIN ctx.files) + 1) :
         LET made == CreateSnapshot(ctx, inode_snapshots, order, steps)
         IN /\ ctx' = made.ctx
            /\ inode_snapshots' = made.store
            /\ IF made.error = "none"
               THEN /\ PostEvent(pipeline, "started", made.result, NoCode, "",
                                 "launch")
                    /\ before' = Put(before, GenUuidStr(next_uuid), ctx)
                    /\ outcome' = outcome
               ELSE /\ pc' = "return"
                    /\ outcome' = "snapshot_error"
                    /\ UNCHANGED <<event, event_data, next_uuid, crashes,
                                   child_ops, before, after>>
    /\ UNCHANGED <<log_exists, db, new_dir, new_head, head, op, pipeline,
                   dependencies, head_arg, new_head_id, child, exit_code,
                   exception>>

\* implement_run: conditional_file and subprocess.Popen; see Launch.  What
\* opening stdout and stderr does to the context is counted with the child's
\* changes.
FsLaunch ==
    /\ pc = "launch"
    /\ \E raised \in BOOLEAN :
         IF raised
         THEN /\ child' = "raised"
              /\ exception' = "OSError"
              /\ pc' = "record_failed"
         ELSE /\ child' = "running"
              /\ exception' = ""
              /\ pc' = "wait"
    /\ UNCHANGED <<disk, next_uuid, crashes, child_ops, before, event_data,
                   op, pipeline, dependencies, event, head_arg, after,
                   new_head_id, exit_code, outcome>>

\* The running child changes the context.
ChildOp ==
    /\ pc = "wait"
    /\ child_ops < MaxChildOps
    /\ \E c \in ChildChanges(ctx) : ctx' = Collect(c, inode_snapshots)
    /\ child_ops' = child_ops + 1
    /\ UNCHANGED <<log_exists, db, new_dir, new_head, head, inode_snapshots,
                   next_uuid, crashes, before, event_data, pc, locals,
                   outcome>>

\* implement_run: proc.wait() returns the exit code, or raises; see Wait.
FsWait ==
    /\ pc = "wait"
    /\ \E code \in ExitCodes, raised \in BOOLEAN :
         IF raised
         THEN /\ child' = "raised"
              /\ exception' = "OSError"
              /\ exit_code' = NoCode
              /\ pc' = "record_failed"
         ELSE /\ child' = "exited"
              /\ exception' = ""
              /\ exit_code' = code
              /\ pc' = IF code = 0 THEN "record_finished" ELSE "record_failed"
    /\ UNCHANGED <<disk, next_uuid, crashes, child_ops, before, event_data,
                   op, pipeline, dependencies, event, head_arg, after,
                   new_head_id, outcome>>

\* revert_one: new_head_id, then restore_snapshot(event.snapshot) on the
\* context; an exception of restore_snapshot propagates out of revert_one.
FsRestoreSnapshot ==
    /\ pc = "restore_snapshot"
    /\ new_head_id' = RevertNewHeadId
    /\ LET restored == RestoreSnapshotOf(ctx, inode_snapshots,
                                         NewestStarted(event_data).snapshot)
       IN /\ ctx' = restored.ctx
          /\ IF restored.error = "none"
             THEN pc' = "record_reverted" /\ outcome' = outcome
             ELSE pc' = "return" /\ outcome' = restored.error
    /\ UNCHANGED <<log_exists, db, new_dir, new_head, head, inode_snapshots,
                   next_uuid, crashes, child_ops, before, event_data, op,
                   pipeline, dependencies, event, head_arg, after, child,
                   exit_code, exception>>

\* The contexts a user hands to pmatic: alias is a symbolic link (to
\* data.txt or to dir, broken when its target is missing), data.txt a regular
\* file, dir a directory of mode 0775, dir/f a regular file of its own or a
\* hard link to data.txt.  Every file holds "A" and has the mode `mode`.
InitialContext(target, data, f, mode) ==
    [files |->
        [k \in {x \in KeySet :
                   \/ x = "alias" /\ target # "none"
                   \/ x = "data.txt" /\ data
                   \/ x = "dir" /\ f # "none"
                   \/ x = "dir/f" /\ f \in {"own", "link"}} |->
            CASE k = "alias" -> LnkEntry(target)
              [] k = "data.txt" -> RegEntry(1)
              [] k = "dir" -> DirEntry(509)
              [] k = "dir/f" -> RegEntry(IF f = "own" THEN 2 ELSE 1)],
     inodes |->
        [i \in {x \in 1..2 : \/ x = 1 /\ data
                             \/ x = 2 /\ f = "own"} |->
            [content |-> "A", mode |-> mode]],
     trash_cans |-> <<>>]

InitialContexts ==
    {InitialContext(x[1], x[2], x[3], x[4]) :
        x \in {y \in {"none", "data.txt", "dir"} \X BOOLEAN
                       \X {"none", "empty", "own", "link"} \X Modes :
                  y[3] = "link" => y[2]}}

\* The state before the first command, on any of the initial contexts.
\* .pmatic/inode_snapshots is missing, or was copied from elsewhere, so that
\* the link named 1 refers to a file of its own (inode 3).
FsInit ==
    /\ log_exists = FALSE
    /\ db = <<>>
    /\ new_dir = <<>>
    /\ new_head = NoHeadFile
    /\ head = Absent
    /\ \E c \in InitialContexts, stale \in BOOLEAN :
         IF stale
         THEN /\ inode_snapshots = [n \in {1} |-> 3]
              /\ ctx = [c EXCEPT !.inodes = Put(@, 3, [content |-> "A",
                                                       mode |-> CreatMode])]
         ELSE /\ inode_snapshots = <<>>
              /\ ctx = c
    /\ next_uuid = 1
    /\ crashes = 0
    /\ child_ops = 0
    /\ before = <<>>
    /\ event_data = <<>>
    /\ pc = "idle"
    /\ op = "none"
    /\ pipeline = ""
    /\ dependencies = "unchecked"
    /\ event = NoEvent
    /\ head_arg = Null
    /\ after = ""
    /\ new_head_id = Null
    /\ child = "none"
    /\ exit_code = NoCode
    /\ exception = ""
    /\ outcome = "none"

FsNext ==
    \/ FsRunGate
    \/ CheckDependencies
    \/ FsRecordPipelineStarted
    \/ SaveEventOpen
    \/ SaveEventWrite
    \/ SaveEventRename
    \/ SaveHeadOpen
    \/ SaveHeadWrite
    \/ SaveHeadRename
    \/ FsLaunch
    \/ ChildOp
    \/ FsWait
    \/ RecordPipelineFinished
    \/ RecordPipelineFailed
    \/ RevertOne
    \/ FsRestoreSnapshot
    \/ RecordPipelineReverted
    \/ RevertSaveNewHead
    \/ RevertReadLog
    \/ Return

FsSpec == FsInit /\ [][FsNext]_vars

\* ------------------------------------------- the reserved directories
\* restore_snapshot on contexts that hold the reserved directories.  In
\* ReservedSpec ctx.files has .pmatic and .pmatic/events (ensure_log_exists
\* made them), .trash_cans with the can of an earlier revert or neither, and
\* dir/.pmatic, a directory that a user named so; the can of the running
\* restore_snapshot is appended to trash_cans as in FsSpec.

\* The path is one of exclude_paths or lies beneath one.
Reserved(key) == key \in ExcludePaths \/ Dirname(key) \in ExcludePaths

\* c with a directory of mode 0755 at every path of ks.
WithDirs(c, ks) ==
    [c EXCEPT !.files = [k \in DOMAIN c.files \cup ks |->
                            IF k \in ks THEN DirEntry(MkdirMode)
                            ELSE c.files[k]]]

\* The contexts before the run: a regular file, a directory with or without
\* a file and with or without a directory dir/.pmatic, a link to the
\* directory or none, and the reserved directories.
ReservedContexts ==
    {WithDirs(InitialContext(x[1], TRUE, x[2], CreatMode),
              {META_DIR_NAME, ".pmatic/events"}
                 \cup (IF x[3] THEN {TRASH_DIR_NAME, ".trash_cans/old"}
                       ELSE {})
                 \cup (IF x[4] THEN {"dir/.pmatic"} ELSE {})) :
        x \in {"none", "dir"} \X {"empty", "own"} \X BOOLEAN \X BOOLEAN}

\* The reserved entries of c.
ReservedEntries(c) ==
    [k \in {x \in DOMAIN c.files : Reserved(x)} |-> c.files[k]]

\* The contexts a child leaves after at most n changes to c that keep the
\* reserved directories as they are.
RECURSIVE ChildRuns(_, _, _)
ChildRuns(c, store, n) ==
    IF n = 0 THEN {c}
    ELSE {c} \cup UNION {ChildRuns(Collect(d, store), store, n - 1) :
                            d \in {x \in ChildChanges(c) :
                                      ReservedEntries(x) = ReservedEntries(c)}}

\* The sorted keys of a dict, as a sequence.
RECURSIVE SortedKeys(_, _)
SortedKeys(ks, i) ==
    IF i > Len(Keys) THEN <<>>
    ELSE (IF Keys[i] \in ks THEN <<Keys[i]>> ELSE <<>>)
            \o SortedKeys(ks, i + 1)

\* revert_one has read the log of one finished run and is about to call
\* restore_snapshot: the snapshot is the one create_snapshot made of one of
\* the contexts, and the child has changed the context since.
ReservedInit ==
    /\ log_exists = TRUE
    /\ new_dir = <<>>
    /\ new_head = NoHeadFile
    /\ head = 2
    /\ next_uuid = 3
    /\ crashes = 0
    /\ child_ops = 0
    /\ pc = "restore_snapshot"
    /\ op = "revert"
    /\ pipeline = "hello"
    /\ dependencies = "unchecked"
    /\ event = NoEvent
    /\ head_arg = Null
    /\ after = ""
    /\ new_head_id = Null
    /\ child = "none"
    /\ exit_code = NoCode
    /\ exception = ""
    /\ outcome = "none"
    /\ \E c \in ReservedContexts :
         LET order == SortedKeys(DOMAIN ScanDirectory(c), 1)
             made == CreateSnapshot(c, <<>>, order, Len(order) + 1)
             started == Event(1, "hello", "started", Null, made.result,
                              NoCode, "")
             finished == Event(2, "hello", "finished", 1, NoSnapshot,
                               NoCode, "")
         IN /\ made.error = "none"
            /\ before = Put(<<>>, 1, c)
            /\ inode_snapshots = made.store
            /\ db = [id \in {1, 2} |->
                       [data |-> IF id = 1 THEN started ELSE finished,
                        complete |-> TRUE]]
            /\ event_data = <<finished, started>>
            /\ ctx \in ChildRuns(made.ctx, made.store, MaxChildOps)

ReservedNext == FsRestoreSnapshot

ReservedSpec == ReservedInit /\ [][ReservedNext]_vars

\* ================================================================== claims
\* The chain on disk, as a fresh EventLog reads it.
DiskChain ==
    IF ~log_exists \/ head = Absent THEN <<>>
    ELSE ReadChain(head, Cardinality(DOMAIN db) + 1)

\* The status a fresh EventLog reports.
DiskStatus == GetStatusOf(<<>>)

\* The most recently appended event of db/ (ids are handed out in order).
Newest == CHOOSE m \in DOMAIN db : \A x \in DOMAIN db : x <= m

\* C1: run refuses whenever the current status is not never_run or finished
\* (started, failed, reverted): the call ends with the refusal, and no
\* snapshot is taken, no event is posted, no child is launched, head and db/
\* stay as they are.  A run that ended in failed leaves the status failed,
\* and the status failed is left only by a revert.
C1_RunRefused ==
    [][/\ \A p \in PipelineNames :
            (RunGate(p) /\ DiskStatus \notin {"never_run", "finished"})
               => /\ pc' = "return"
                  /\ outcome' = "refused"
                  /\ head' = head
                  /\ db' = db
                  /\ new_dir' = new_dir
                  /\ inode_snapshots' = inode_snapshots
                  /\ ctx' = ctx
                  /\ next_uuid' = next_uuid
                  /\ child' = "none"
       /\ (pc = "return" /\ outcome \in {"exit_code_error", "exception"})
            => DiskStatus = "failed"
       /\ (DiskStatus = "failed" /\ DiskStatus' # "failed") => op = "revert"
      ]_vars

\* C1 witness: a run was refused on a chain whose newest event is failed.
C1_Witness ==
    /\ pc = "return"
    /\ outcome = "refused"
    /\ DiskStatus = "failed"

\* C2 as stated: after revert_one completes, get_status() is reverted.
C2_Original ==
    (pc = "return" /\ outcome = "reverted") => GetStatus = "reverted"

\* C2 amended: after revert_one completes, get_status() is the status of the
\* chain that precedes the reverted run: never_run when the reverted started
\* event has no parent, finished otherwise; it is never reverted.
C2_StatusAfterRevert ==
    (pc = "return" /\ outcome = "reverted")
        => /\ GetStatus = IF new_head_id = Null THEN "never_run" ELSE "finished"
           /\ DiskStatus = GetStatus
           /\ head = new_head_id

\* C2 witness: a revert of a second run has completed; the status is finished.
C2_Witness ==
    /\ pc = "return"
    /\ outcome = "reverted"
    /\ GetStatus = "finished"
    /\ db[Newest].data.what = "reverted"

\* C3: a successful revert_one leaves a status that the gate of run lets
\* pass (also when the reverted run had failed), a run on such a status goes
\* on to the dependency check, and from there to the launch of the child it
\* can only be ended by a dependency error or a snapshot error.
C3_RunAfterRevert ==
    [][/\ (pc = "return" /\ outcome = "reverted")
            => DiskStatus \in {"never_run", "finished"}
       /\ \A p \in PipelineNames :
            (RunGate(p) /\ DiskStatus \in {"never_run", "finished"})
               => pc' = "check_deps"
       /\ (op = "run" /\ child = "none" /\ pc # "return" /\ pc' = "return")
            => outcome' \in {"dependency_error", "snapshot_error"}
       /\ (pc = "check_deps" /\ dependencies' = "ok") => pc' = "record_started"
      ]_vars

\* C3 witness: a run failed, was reverted, and the next run has posted its
\* started event and launched the child.
C3_Witness ==
    /\ child = "running"
    /\ head \in DOMAIN db
    /\ db[head].data.what = "started"
    /\ \E f, r \in DOMAIN db :
         /\ db[f].data.what = "failed"
         /\ db[r].data.what = "reverted"
         /\ db[r].data.parent_event_id = f
         /\ r < head

\* C4 as stated: after any sequence of run and revert operations head names
\* the most recently appended event.
C4_Original == (pc = "idle" /\ DOMAIN db # {}) => head = Newest

\* C4 amended: a run never rewinds head, every event it appends becomes head;
\* a revert appends a reverted event, moves head onto it and then rewinds
\* head to the parent_event_id of the reverted started event.
C4_HeadMoves ==
    [][head' # head =>
         IF pc = "rename_head" /\ after = "read_log"
         THEN /\ head = Newest
              /\ db[head].data.what = "reverted"
              /\ LET chain == DiskChain
                 IN \E i \in 1..Len(chain) :
                      /\ chain[i].what = "started"
                      /\ \A j \in 1..(i - 1) : chain[j].what # "started"
                      /\ head' = chain[i].parent_event_id
              /\ head' < head
         ELSE /\ head' = Newest
              /\ head' = event.id
              /\ head \in {Absent, Null} \/ head < head'
      ]_vars

\* C4 witness: a revert has completed and head does not name the reverted
\* event, which is the most recently appended one.
C4_Witness ==
    /\ pc = "return"
    /\ outcome = "reverted"
    /\ db[Newest].data.what = "reverted"
    /\ head # Newest
    /\ head # Null

\* C5: when revert_one has set head (before its final read_log), with E the
\* newest started event of the chain read at the beginning and R the
\* reverted event: R is in db/ with parent_event_id the event that was newest
\* before the revert, head is E.parent_event_id, and neither R nor any event
\* from the old head down to E is reachable from head.
C5_RevertOne ==
    pc = "read_log" =>
        LET R == event_data[1]
            old == Tail(event_data)
        IN /\ R.what = "reverted"
           /\ R.id \in DOMAIN db
           /\ db[R.id].data = R
           /\ old # <<>>
           /\ R.parent_event_id = old[1].id
           /\ \E i \in 1..Len(old) :
                /\ old[i].what = "started"
                /\ \A j \in 1..(i - 1) : old[j].what # "started"
                /\ head = old[i].parent_event_id
                /\ LET chain == DiskChain
                   IN \A k \in 1..Len(chain) :
                        /\ chain[k].id # R.id
                        /\ \A j \in 1..i : chain[k].id # old[j].id

\* C5 witness: revert_one has rewound head past a failed run to an older
\* event.
C5_Witness ==
    /\ pc = "read_log"
    /\ Len(event_data) >= 3
    /\ event_data[2].what = "failed"
    /\ head # Null

\* C6: at every point where the process may stop, head is absent, null or
\* names a complete event file of db/, and db/ holds no partial file; when the
\* process stops between the event rename and the head rename of post_event,
\* the event is in db/ and head still names the previous event.
C6_DiskConsistent ==
    /\ head \in {Absent, Null} \/ (head \in DOMAIN db /\ db[head].complete)
    /\ \A id \in DOMAIN db : db[id].complete /\ db[id].data.id = id
    /\ \A id \in DOMAIN db :
         db[id].data.parent_event_id \in {Null} \cup DOMAIN db

C6_Orphan ==
    (Crash /\ pc \in {"save_head", "write_head", "rename_head"}
           /\ after # "read_log")
        => /\ event.id \in DOMAIN db'
           /\ db' = db
           /\ head' = head
           /\ head' # event.id
           /\ \/ head' = event.parent_event_id
              \/ (event.parent_event_id = Null /\ head' = Absent)

C6_CrashConsistency == []C6_DiskConsistent /\ [][C6_Orphan]_vars

\* C6 witness: the process was killed after the rename of a started event
\* and before the rename of head: the event is an orphan of db/.
C6_Witness ==
    /\ pc = "idle"
    /\ crashes > 0
    /\ DOMAIN db # {}
    /\ db[Newest].data.what = "started"
    /\ head # Newest

C9_RunOrder ==
    [][/\ (event.what # "started" /\ event'.what = "started")
            => (op = "run" /\ dependencies = "ok")
       /\ (child = "none" /\ child' # "none")
            => /\ dependencies = "ok"
               /\ head \in DOMAIN db
               /\ db[head].complete
               /\ db[head].data = event
               /\ event.what = "started"
               /\ event.pipeline_name = pipeline
               /\ event.snapshot \in inode_snapshots
               /\ event.snapshot = ctx.tree
               /\ ~ctx.writable
       /\ (event' # event /\ event'.what \in {"finished", "failed"})
            => /\ event.what = "started"
               /\ head \in DOMAIN db
               /\ db[head].data = event
               /\ child \in {"exited", "raised"}
      ]_vars

\* C9 witness: the child is running and head names the started event.
C9_Witness ==
    /\ pc = "wait"
    /\ child = "running"
    /\ db[head].data.what = "started"
    /\ db[head].data.parent_event_id # Null

\* C10: a run that has posted its started event and ended has posted exactly
\* one terminal event, whose parent is the started event: finished iff the
\* child exited with 0; failed with the exit code when it exited non-zero
\* (the caller gets the exit-code error); failed with the exception message
\* when launching or waiting raised (the caller gets the exception).  A clean
\* run on an empty log leaves the chain started <- finished, status finished.
C10_TerminalEvent ==
    (pc = "return" /\ op = "run" /\ event # NoEvent) =>
        /\ outcome \in {"finished", "exit_code_error", "exception"}
        /\ Len(DiskChain) >= 2
        /\ LET T == DiskChain[1]
               S == DiskChain[2]
           IN /\ T = event
              /\ S.what = "started"
              /\ S.pipeline_name = pipeline
              /\ T.pipeline_name = pipeline
              /\ T.parent_event_id = S.id
              /\ {id \in DOMAIN db : db[id].data.parent_event_id = S.id}
                    = {T.id}
              /\ T.what \in {"finished", "failed"}
              /\ (T.what = "finished") <=> (child = "exited" /\ exit_code = 0)
              /\ (T.what = "finished") <=> (outcome = "finished")
              /\ (child = "exited" /\ exit_code # 0)
                    => /\ T.exit_code = exit_code
                       /\ T.exception = ""
                       /\ outcome = "exit_code_error"
              /\ child = "raised"
                    => /\ T.what = "failed"
                       /\ T.exception = exception
                       /\ exception # ""
                       /\ T.exit_code = NoCode
                       /\ outcome = "exception"
              /\ T.what = "finished" => T.exit_code = NoCode /\ T.exception = ""
              /\ (S.parent_event_id = Null /\ outcome = "finished")
                    => /\ Len(DiskChain) = 2
                       /\ GetStatus = "finished"

\* C10 witness: launching or waiting raised, and the run has posted a failed
\* event carrying the exception message.
C10_Witness ==
    /\ pc = "return"
    /\ outcome = "exception"
    /\ db[head].data.what = "failed"
    /\ db[head].data.exception = "OSError"


\* ------------------------------------------------ claims on the filesystem
\* The context the reverted run started from (FsSpec has one run).
PreRun == before[CHOOSE id \in DOMAIN before : TRUE]

\* The bytes of the regular file at key in context c.
Bytes(c, key) == c.inodes[c.files[key].inode].content

\* The keys of c that are regular files.
RegularFiles(c) == {k \in DOMAIN c.files : c.files[k].format = "REG"}

\* revert_one has completed: the reverted event is recorded.
Reverted == pc = "return" /\ op = "revert" /\ outcome = "reverted"

\* C11 as stated: after revert_one every regular file of the pre-run context
\* is at its path again and holds its pre-run bytes, whatever the child did
\* to it (write in place, delete, replace by rename).
C11_Original ==
    Reverted =>
        \A key \in RegularFiles(PreRun) :
            /\ key \in RegularFiles(ctx)
            /\ Bytes(ctx, key) = Bytes(PreRun, key)


\* restore_snapshot has just returned without error.
Restored == pc = "record_reverted"

\* The snapshot revert_one restores.
RestoredSnapshot == NewestStarted(event_data).snapshot

\* C12 as stated: when restore_snapshot(S) returns without error, a fresh
\* scan_directory has exactly the keys of S and equals S on format, size,
\* inode and symlink at every key, whatever the child changed.
C12_Original ==
    Restored =>
        /\ DOMAIN ScanDirectory(ctx) = DOMAIN RestoredSnapshot
        /\ \A key \in DOMAIN RestoredSnapshot :
              StripPermissions(ScanDirectory(ctx)[key])
                 = StripPermissions(RestoredSnapshot[key])


\* create_snapshot has returned and the started event is being posted; the
\* child is not launched yet.
Snapshotted ==
    /\ op = "run"
    /\ event.what = "started"
    /\ pc \in {"save_event", "write_event", "rename_event", "save_head",
               "write_head", "rename_head", "launch"}

\* C13: after create_snapshot returns, for every key of the returned dict
\* whose format is neither DIR nor LNK, inode_snapshots/<inode> exists and is
\* the same file as the path at that key.
C13_Hardlinks ==
    Snapshotted =>
        \A key \in DOMAIN event.snapshot :
            event.snapshot[key].format \notin {"DIR", "LNK"}
               => /\ event.snapshot[key].inode \in DOMAIN inode_snapshots
                  /\ inode_snapshots[event.snapshot[key].inode]
                        = ctx.files[key].inode

\* C13 witness: the snapshot of a context where two keys share inode 1 and
\* inode_snapshots/1 referred to another file (inode 3) before.
C13_Witness ==
    /\ Snapshotted
    /\ 3 \in DOMAIN PreRun.inodes
    /\ {"data.txt", "dir/f"} \subseteq DOMAIN event.snapshot
    /\ event.snapshot["data.txt"].inode = 1
    /\ event.snapshot["dir/f"].inode = 1
    /\ inode_snapshots[1] = 1


\* The entries of the context that restore_snapshot finds new or changed.
Divergent(c, snapshot_dict) ==
    {key \in DOMAIN c.files :
        StripPermissions(ScanDirectory(c)[key])
           # StripPermissions(Get(snapshot_dict, key))}

\* C14 as stated: when restore_snapshot(S) returns, every entry that was
\* absent from S or differed from S on format, size, inode or symlink is no
\* longer at its path with that identity, and is in the trash can of this
\* revert at the same relative path.
C14_Original ==
    [][(pc = "restore_snapshot" /\ pc' = "record_reverted")
          => \A key \in Divergent(ctx, RestoredSnapshot) :
                /\ ~ /\ key \in DOMAIN ctx'.files
                     /\ StripPermissions(ScanDirectory(ctx')[key])
                           = StripPermissions(ScanDirectory(ctx)[key])
                /\ Len(ctx'.trash_cans) = Len(ctx.trash_cans) + 1
                /\ key \in DOMAIN ctx'.trash_cans[Len(ctx'.trash_cans)]
                /\ ctx'.trash_cans[Len(ctx'.trash_cans)][key] = ctx.files[key]
      ]_vars


\* C15: when the dependency check of run finds a dependency unlisted, missing
\* or of the wrong type, run ends there with the dependency error: no event
\* is built or posted, no snapshot is taken (no backup, no chmod), no child
\* is launched, and head, db/ and new/ are as they were before the call.
C15_DependencyFailure ==
    [][/\ (pc = "check_deps" /\ dependencies' = "failed")
            => /\ pc' = "return"
               /\ outcome' = "dependency_error"
               /\ disk' = disk
               /\ next_uuid' = next_uuid
               /\ event' = NoEvent
               /\ child' = "none"
       /\ \A p \in PipelineNames :
            (RunGate(p) /\ pc' = "check_deps")
               => /\ head' = head
                  /\ db' = db
                  /\ new_dir' = new_dir
                  /\ inode_snapshots' = inode_snapshots
                  /\ ctx' = ctx
                  /\ event' = NoEvent
                  /\ child' = "none"
       /\ (pc = "return" /\ outcome = "dependency_error")
            => (disk' = disk /\ next_uuid' = next_uuid)
      ]_vars

\* C15 witness: a run on a context with a finished run ended with the
\* dependency error.
C15_Witness ==
    /\ pc = "return"
    /\ outcome = "dependency_error"
    /\ dependencies = "failed"
    /\ DiskStatus = "finished"
    /\ child = "none"


\* The dependency check has ended.
DepChecked == pc \in {"return", "record_started"} /\ op = "run"

\* C16: the three sets are pairwise disjoint; a dependency is unlisted iff
\* its (name, version) is not in the registry, missing iff it is listed and
\* its path does not exist, of bad type iff it is listed, exists and fails
\* its kind test; check_exists and check_type are never asked of an unlisted
\* dependency (no KeyError).
C16_Partition ==
    DepChecked =>
        LET deps == dependencies.dependencies
            registry == dependencies.registry
            fs == dependencies.fs
            unlisted == dependencies.unlisted
            missing == dependencies.missing
            bad_type == dependencies.bad_type
            key(d) == <<d[1], d[2]>>
        IN /\ dependencies.error = "none"
           /\ unlisted \cap missing = {}
           /\ unlisted \cap bad_type = {}
           /\ missing \cap bad_type = {}
           /\ unlisted \cup missing \cup bad_type \subseteq deps
           /\ \A d \in deps :
                /\ d \in unlisted <=> key(d) \notin registry
                /\ d \in missing <=>
                      (key(d) \in registry /\ fs[key(d)].target = "missing")
                /\ d \in bad_type <=>
                      /\ key(d) \in registry
                      /\ fs[key(d)].target # "missing"
                      /\ ~CheckType(d, fs)
           /\ (pc = "record_started")
                 <=> (unlisted = {} /\ missing = {} /\ bad_type = {})

\* C16 witness: a check that found one dependency of each category.
C16_Witness ==
    /\ DepChecked
    /\ dependencies.unlisted # {}
    /\ dependencies.missing # {}
    /\ dependencies.bad_type # {}


C18_SnapshotError ==
    [][/\ (pc = "record_started" /\ pc' # "save_event")
            => /\ pc' = "return"
               /\ outcome' = "snapshot_error"
               /\ db' = db
               /\ new_dir' = new_dir
               /\ new_head' = new_head
               /\ head' = head
               /\ event' = NoEvent
               /\ event_data' = event_data
               /\ next_uuid' = next_uuid
               /\ child' = "none"
       /\ (pc = "return" /\ outcome = "snapshot_error")
            => /\ db' = db
               /\ head' = head
               /\ child' = "none"
               /\ DiskStatus # "started"
      ]_vars

\* C18 witness: create_snapshot raised in a run after a finished run.
C18_Witness ==
    /\ pc = "return"
    /\ outcome = "snapshot_error"
    /\ DiskStatus = "finished"


\* C19: the event store is append-only: every file of db/ stays in db/ with
\* the same content at every step of run and revert_one, also when the
\* process is killed; the events of a reverted run remain in db/.
C19_AppendOnly ==
    [][\A id \in DOMAIN db : id \in DOMAIN db' /\ db'[id] = db[id]]_vars

\* C19 witness: after a revert, db/ still holds the started event of the
\* reverted run, which the chain from head no longer reaches.
C19_Witness ==
    /\ pc = "return"
    /\ outcome = "reverted"
    /\ \E id \in DOMAIN db :
         /\ db[id].data.what = "started"
         /\ \A i \in 1..Len(DiskChain) : DiskChain[i].id # id


\* C20 as stated: in the dict of a scan, the symlink field of a record is
\* the target of the link when the format is LNK (whatever the link points
\* to) and None otherwise.
C20_Original ==
    Snapshotted =>
        \A key \in DOMAIN event.snapshot :
            event.snapshot[key].symlink
               = IF event.snapshot[key].format = "LNK"
                 THEN ctx.files[key].symlink
                 ELSE None


\* C21: after create_snapshot returns, every regular file of the context has
\* its pre-snapshot permission bits without the three write bits and with
\* every other bit as it was (mode & 07555); an entry of another format keeps
\* its mode; the returned record holds the mode of before the masking.  When
\* restore_snapshot returns, every entry of the snapshot has its recorded
\* mode again, write bits included.
C21_ReadOnlyMasking ==
    /\ Snapshotted =>
          /\ DOMAIN ctx.files = DOMAIN PreRun.files
          /\ \A key \in DOMAIN PreRun.files :
                LET old == StatItem(PreRun, key)
                    new == StatItem(ctx, key)
                IN /\ new.format = old.format
                   /\ event.snapshot[key].mode = old.mode
                   /\ IF old.format = "REG"
                      THEN /\ BitAnd(new.mode, WriteBits) = 0
                           /\ new.mode + BitAnd(old.mode, WriteBits) = old.mode
                      ELSE new.mode = old.mode
    /\ Restored =>
          \A key \in DOMAIN RestoredSnapshot :
              /\ key \in DOMAIN ctx.files
              /\ StatItem(ctx, key).mode = RestoredSnapshot[key].mode

\* C21 witness: the snapshot of a context with a directory of mode 0775 and
\* a regular file of mode 06775, which is now 06555.
C21_Witness ==
    /\ Snapshotted
    /\ {"data.txt", "dir"} \subseteq DOMAIN ctx.files
    /\ StatItem(PreRun, "data.txt").mode = 3581
    /\ StatItem(ctx, "data.txt").mode = 3437
    /\ StatItem(ctx, "dir").mode = 509


C23_RevertEmptyChain ==
    [][/\ (pc = "idle" /\ op' = "revert" /\ DiskChain = <<>>)
            => /\ pc' = "return"
               /\ outcome' = "assertion_error"
               /\ ctx' = ctx
               /\ inode_snapshots' = inode_snapshots
               /\ db' = db
               /\ new_dir' = new_dir
               /\ new_head' = new_head
               /\ head' = head
               /\ event' = NoEvent
               /\ next_uuid' = next_uuid
       /\ (pc = "return" /\ outcome = "assertion_error")
            => /\ pc' = "idle"
               /\ ctx' = ctx
               /\ inode_snapshots' = inode_snapshots
               /\ db' = db
               /\ new_dir' = new_dir
               /\ head' = head
      ]_vars

\* C23 witness: revert_one has failed on a context whose runs were all
\* reverted: db/ holds their events and head is null.
C23_Witness ==
    /\ pc = "return"
    /\ op = "revert"
    /\ outcome = "assertion_error"
    /\ head = Null
    /\ \E id \in DOMAIN db : db[id].data.what = "reverted"


\* db/ holds the events of k runs that each ended in finished, then of j
\* completed reverts, and nothing else (ids are handed out in order), and no
\* operation is under way.
RunsThenReverts(k, j) ==
    /\ pc \in {"idle", "return"}
    /\ DOMAIN db = 1..(2 * k + j)
    /\ \A i \in 1..k : /\ db[2 * i - 1].data.what = "started"
                       /\ db[2 * i].data.what = "finished"
    /\ \A i \in (2 * k + 1)..(2 * k + j) : db[i].data.what = "reverted"

\* The chain read_log finds directly after the first n of these runs: the
\* finished and started events of run n, then those of run n - 1, and so on.
RECURSIVE ChainAfterRuns(_)
ChainAfterRuns(n) ==
    IF n = 0 THEN <<>>
    ELSE <<db[2 * n].data, db[2 * n - 1].data>> \o ChainAfterRuns(n - 1)

\* C24: after k runs that each ended in finished and then j <= k completed
\* reverts, the chain from head is the chain of directly after the first
\* k - j runs, event for event; with j = k it is empty and the status is
\* never_run.
C24_RevertUndoesOneRun ==
    \A k \in 0..MaxEvents, j \in 0..MaxEvents :
        (j <= k /\ RunsThenReverts(k, j))
           => /\ DiskChain = ChainAfterRuns(k - j)
              /\ Len(DiskChain) = 2 * (k - j)
              /\ \A i \in 1..Len(DiskChain) :
                    DiskChain[i].id = 2 * (k - j) + 1 - i
              /\ j = k => (DiskChain = <<>> /\ DiskStatus = "never_run")
              /\ j < k => DiskStatus = "finished"

\* C24 witness: two runs, then one revert: the chain is the one of after the
\* first run, events 2 and 1, and db/ holds five events.
C24_Witness ==
    /\ RunsThenReverts(2, 1)
    /\ outcome = "reverted"
    /\ Len(DiskChain) = 2
    /\ DiskChain[1].id = 2
    /\ DiskChain[2].id = 1


\* `assert event.pipeline_name == pipeline_name` of revert_one on the chain
\* ed: it holds, or is not reached because an earlier assertion fails.
NameAssertionHolds(ed) ==
    (/\ ed # <<>>
     /\ \E i \in 1..Len(ed) : ed[i].what = "started")
        => NewestStarted(ed).pipeline_name = ed[1].pipeline_name

\* C25: in every state, also one left by a kill of the process, when the
\* chain from head has a started event, the newest one has the pipeline_name
\* of the event head names; so when revert_one ends in an assertion error, it
\* is not the assertion on the pipeline name that failed.
C25_PipelineNameAssertion ==
    /\ [](head \notin {Absent, Null} => NameAssertionHolds(DiskChain))
    /\ [][(pc = "idle" /\ op' = "revert" /\ outcome' = "assertion_error")
             => NameAssertionHolds(ReadLog)
         ]_vars

\* C25 witness: revert_one has passed its assertions on a chain of two runs,
\* the older of pipeline hello and the newer of pipeline other.
C25_Witness ==
    /\ pc = "restore_snapshot"
    /\ op = "revert"
    /\ pipeline = "other"
    /\ Len(event_data) = 4
    /\ event_data[3].pipeline_name = "hello"
    /\ NewestStarted(event_data).pipeline_name = "other"


\* The event of db/ that the event e names as its parent.
ParentOf(e) == db[e.parent_event_id].data

\* C26: in every state reached through run and revert_one without a kill of
\* the process, every finished or failed event of db/ has as parent a started
\* event of the same pipeline_name, every started event has a null parent or
\* a finished event as parent, and every reverted event has a finished or
\* failed event as parent.
C26_ChainShape ==
    \A id \in DOMAIN db :
        LET e == db[id].data
        IN /\ e.what \in EVENT_TYPES
           /\ e.what \in {"finished", "failed"}
                 => /\ e.parent_event_id \in DOMAIN db
                    /\ ParentOf(e).what = "started"
                    /\ ParentOf(e).pipeline_name = e.pipeline_name
           /\ e.what = "started"
                 => \/ e.parent_event_id = Null
                    \/ /\ e.parent_event_id \in DOMAIN db
                       /\ ParentOf(e).what = "finished"
           /\ e.what = "reverted"
                 => /\ e.parent_event_id \in DOMAIN db
                    /\ ParentOf(e).what \in {"finished", "failed"}

\* C26 witness: a run that finished, a run of the other pipeline on top of
\* it that failed, and the revert of that run: db/ holds the four kinds of
\* event.
C26_Witness ==
    /\ pc = "return"
    /\ outcome = "reverted"
    /\ DOMAIN db = 1..5
    /\ db[2].data.what = "finished"
    /\ db[3].data.what = "started"
    /\ db[3].data.parent_event_id = 2
    /\ db[3].data.pipeline_name # db[2].data.pipeline_name
    /\ db[4].data.what = "failed"
    /\ db[5].data.what = "reverted"
    /\ db[5].data.parent_event_id = 4

====
